---- MODULE Spec2Model ----
(***************************************************************************)
(* The USAspending fetch pipeline of nih-awards-tracker                    *)
(* (src/fetch_usaspending.py and its _site/src variant): main iterates the *)
(* agency filters; fetch_for_agency pages through the transaction search,  *)
(* normalizes the rows, enriches them with award details and derives the   *)
(* two flags; write_outputs persists the table.  The USAspending server is *)
(* the environment: every response is a nondeterministic choice.           *)
(*                                                                         *)
(* Text the code inspects character by character (agency names, tiers,     *)
(* slugs and every value taken from an award detail) is a sequence of      *)
(* one-character strings; text the code only copies (transaction fields)   *)
(* is a TLA+ string.  A number that may be missing is a set of at most one *)
(* integer.                                                                *)
(***************************************************************************)
EXTENDS Integers, Sequences, FiniteSets, TLC

\* ------------------------------------------------------------------ text
\* A character is a one-character string of Latin-1 (U+0000..U+00FF); the
\* letters that upper() and lower() reach from there outside Latin-1 are
\* written "U+039C", "U+0178" and "U+03BC".

LowerAlpha == <<"a","b","c","d","e","f","g","h","i","j","k","l","m",
                "n","o","p","q","r","s","t","u","v","w","x","y","z">>
UpperAlpha == <<"A","B","C","D","E","F","G","H","I","J","K","L","M",
                "N","O","P","Q","R","S","T","U","V","W","X","Y","Z">>
Digits == {"0","1","2","3","4","5","6","7","8","9"}

\* The cased letters of Latin-1 beyond ASCII that map one to one.
LatinLower == <<"à","á","â","ã","ä","å","æ","ç","è","é","ê","ë","ì","í","î",
                "ï","ð","ñ","ò","ó","ô","õ","ö","ø","ù","ú","û","ü","ý","þ">>
LatinUpper == <<"À","Á","Â","Ã","Ä","Å","Æ","Ç","È","É","Ê","Ë","Ì","Í","Î",
                "Ï","Ð","Ñ","Ò","Ó","Ô","Õ","Ö","Ø","Ù","Ú","Û","Ü","Ý","Þ">>
\* Letters and digits of Latin-1 that have no one-to-one case partner.
LatinOtherWord == {"ª","²","³","µ","¹","º","¼","½","¾","ß","ÿ"}

\* str.isspace(): what strip() removes and \s matches.
WHITESPACE == {"\t","\n","","\f","\r","","","",""," ",""," "}

Range(f) == {f[k] : k \in DOMAIN f}

SetMin(S) == CHOOSE x \in S : \A y \in S : x <= y
SetMax(S) == CHOOSE x \in S : \A y \in S : y <= x

\* str.upper() of one character: the characters it becomes.
UpperChar(c) ==
  IF c \in Range(LowerAlpha)
    THEN << UpperAlpha[CHOOSE k \in 1..26 : LowerAlpha[k] = c] >>
  ELSE IF c \in Range(LatinLower)
    THEN << LatinUpper[CHOOSE k \in 1..Len(LatinLower) : LatinLower[k] = c] >>
  ELSE IF c = "ß" THEN << "S", "S" >>
  ELSE IF c = "µ" THEN << "U+039C" >>
  ELSE IF c = "U+03BC" THEN << "U+039C" >>
  ELSE IF c = "ÿ" THEN << "U+0178" >>
  ELSE << c >>
\* str.lower() of one character (always one character here).
LowerChar(c) ==
  IF c \in Range(UpperAlpha)
    THEN LowerAlpha[CHOOSE k \in 1..26 : UpperAlpha[k] = c]
  ELSE IF c \in Range(LatinUpper)
    THEN LatinLower[CHOOSE k \in 1..Len(LatinUpper) : LatinUpper[k] = c]
  ELSE IF c = "U+0178" THEN "ÿ"
  ELSE IF c = "U+039C" THEN "U+03BC"
  ELSE c
RECURSIVE Upper(_)
Upper(s) == IF s = << >> THEN << >> ELSE UpperChar(Head(s)) \o Upper(Tail(s))
Lower(s) == [k \in 1..Len(s) |-> LowerChar(s[k])]

\* Python's whitespace (str.strip() with no argument, \s) and \w.
IsSpace(c) == c \in WHITESPACE
IsWord(c) ==
  c \in Range(LowerAlpha) \cup Range(UpperAlpha) \cup Digits \cup {"_"}
        \cup Range(LatinLower) \cup Range(LatinUpper) \cup LatinOtherWord
        \cup {"U+039C", "U+03BC", "U+0178"}

\* s.strip(chars): drop the leading and trailing characters that are in drop.
StripSet(s, drop) ==
  LET keep == {k \in 1..Len(s) : s[k] \notin drop}
  IN  IF keep = {} THEN << >> ELSE SubSeq(s, SetMin(keep), SetMax(keep))
Strip(s) == StripSet(s, WHITESPACE)

\* sub in s
Contains(sub, s) ==
  \E k \in 0..(Len(s) - Len(sub)) : SubSeq(s, k + 1, k + Len(sub)) = sub

\* s.replace(old, new), old non-empty: leftmost, non-overlapping.
RECURSIVE Replace(_, _, _)
Replace(s, old, new) ==
  IF Len(s) < Len(old) THEN s
  ELSE IF SubSeq(s, 1, Len(old)) = old
    THEN new \o Replace(SubSeq(s, Len(old) + 1, Len(s)), old, new)
    ELSE <<Head(s)>> \o Replace(Tail(s), old, new)

\* re.sub(r"[^\w]+", "_", s): every maximal run of non-word characters
\* becomes one underscore.
RECURSIVE SubNonWordRuns(_, _)
SubNonWordRuns(s, inRun) ==
  IF s = << >> THEN << >>
  ELSE IF IsWord(Head(s)) THEN <<Head(s)>> \o SubNonWordRuns(Tail(s), FALSE)
  ELSE (IF inRun THEN << >> ELSE <<"_">>) \o SubNonWordRuns(Tail(s), TRUE)

\* re.sub(r"_+", "_", s)
RECURSIVE SquashUnderscores(_, _)
SquashUnderscores(s, inRun) ==
  IF s = << >> THEN << >>
  ELSE IF Head(s) = "_"
    THEN (IF inRun THEN << >> ELSE <<"_">>) \o SquashUnderscores(Tail(s), TRUE)
    ELSE <<Head(s)>> \o SquashUnderscores(Tail(s), FALSE)

\* re.sub(r"[^\w\s-]", "", s)
RECURSIVE DropPunctuation(_)
DropPunctuation(s) ==
  IF s = << >> THEN << >>
  ELSE (IF IsWord(Head(s)) \/ IsSpace(Head(s)) \/ Head(s) = "-"
          THEN <<Head(s)>> ELSE << >>) \o DropPunctuation(Tail(s))

\* re.sub(r"\s+", "-", s)
RECURSIVE SubSpaceRuns(_, _)
SubSpaceRuns(s, inRun) ==
  IF s = << >> THEN << >>
  ELSE IF IsSpace(Head(s))
    THEN (IF inRun THEN << >> ELSE <<"-">>) \o SubSpaceRuns(Tail(s), TRUE)
    ELSE <<Head(s)>> \o SubSpaceRuns(Tail(s), FALSE)

\* ------------------------------------------------------------ slugs

\* src/fetch_usaspending.py slugify
slugify(name) ==
  LET s1 == Lower(Strip(name))
      s2 == Replace(s1, <<"&">>, <<" ","a","n","d"," ">>)
      s3 == SubNonWordRuns(s2, FALSE)
      s4 == StripSet(SquashUnderscores(s3, FALSE), {"_"})
  IN  IF s4 = << >> THEN <<"a","g","e","n","c","y">> ELSE s4

PREFERRED_SLUGS ==
  { <<<<"n","a","t","i","o","n","a","l","_","i","n","s","t","i","t","u","t","e","s","_","o","f","_","h","e","a","l","t","h">>,
      <<"n","i","h">>>>,
    <<<<"a","d","v","a","n","c","e","d","_","r","e","s","e","a","r","c","h","_","p","r","o","j","e","c","t","s","_","a","g","e","n","c","y","_","f","o","r","_","h","e","a","l","t","h">>,
      <<"a","r","p","a","_","h">>>>,
    <<<<"a","g","e","n","c","y","_","f","o","r","_","h","e","a","l","t","h","c","a","r","e","_","r","e","s","e","a","r","c","h","_","a","n","d","_","q","u","a","l","i","t","y">>,
      <<"a","h","r","q">>>>,
    <<<<"c","e","n","t","e","r","s","_","f","o","r","_","m","e","d","i","c","a","r","e","_","a","n","d","_","m","e","d","i","c","a","i","d","_","s","e","r","v","i","c","e","s">>,
      <<"c","m","s">>>>,
    <<<<"d","e","p","a","r","t","m","e","n","t","_","o","f","_","d","e","f","e","n","s","e">>,
      <<"d","o","d">>>>,
    <<<<"o","f","f","i","c","e","_","o","f","_","n","a","v","a","l","_","r","e","s","e","a","r","c","h">>,
      <<"o","n","r">>>>,
    <<<<"n","a","v","a","l","_","i","n","f","o","r","m","a","t","i","o","n","_","w","a","r","f","a","r","e","_","s","y","s","t","e","m","s","_","c","o","m","m","a","n","d">>,
      <<"n","a","v","w","a","r">>>>,
    <<<<"a","i","r","_","f","o","r","c","e","_","r","e","s","e","a","r","c","h","_","l","a","b","o","r","a","t","o","r","y">>,
      <<"a","f","r","l">>>>,
    <<<<"u","_","s","_","a","r","m","y","_","m","e","d","i","c","a","l","_","r","e","s","e","a","r","c","h","_","a","n","d","_","d","e","v","e","l","o","p","m","e","n","t","_","c","o","m","m","a","n","d">>,
      <<"u","s","a","m","r","d","c">>>>,
    <<<<"u","_","s","_","a","r","m","y","_","e","n","g","i","n","e","e","r","_","r","e","s","e","a","r","c","h","_","a","n","d","_","d","e","v","e","l","o","p","m","e","n","t","_","c","e","n","t","e","r">>,
      <<"e","r","d","c">>>>,
    <<<<"d","e","f","e","n","s","e","_","h","e","a","l","t","h","_","a","g","e","n","c","y">>,
      <<"d","h","a">>>>,
    <<<<"d","e","p","a","r","t","m","e","n","t","_","o","f","_","e","n","e","r","g","y">>,
      <<"d","o","e">>>>,
    <<<<"o","f","f","i","c","e","_","o","f","_","s","c","i","e","n","c","e">>,
      <<"d","o","e","_","o","f","f","i","c","e","_","o","f","_","s","c","i","e","n","c","e">>>>,
    <<<<"a","d","v","a","n","c","e","d","_","r","e","s","e","a","r","c","h","_","p","r","o","j","e","c","t","s","_","a","g","e","n","c","y","_","e","n","e","r","g","y">>,
      <<"a","r","p","a","_","e">>>>,
    <<<<"e","n","v","i","r","o","n","m","e","n","t","a","l","_","p","r","o","t","e","c","t","i","o","n","_","a","g","e","n","c","y">>,
      <<"e","p","a">>>> }

friendly_slug(name) ==
  LET s == slugify(name)
  IN  IF \E p \in PREFERRED_SLUGS : p[1] = s
        THEN (CHOOSE p \in PREFERRED_SLUGS : p[1] = s)[2]
        ELSE s

\* _site/src/fetch_usaspending.py slugify, aliases applied in source order
slugify_site(name) ==
  IF name = << >> THEN <<"u","n","k","n","o","w","n">>
  ELSE
    LET s1 == Replace(Lower(name), <<"&">>, <<"a","n","d">>)
        s2 == DropPunctuation(s1)
        s3 == SubSpaceRuns(Strip(s2), FALSE)
        s4 == Replace(s3, <<"n","a","t","i","o","n","a","l","-","i","n","s","t","i","t","u","t","e","s","-","o","f","-","h","e","a","l","t","h">>,
                      <<"n","i","h">>)
        s5 == Replace(s4, <<"a","d","v","a","n","c","e","d","-","r","e","s","e","a","r","c","h","-","p","r","o","j","e","c","t","s","-","a","g","e","n","c","y","-","f","o","r","-","h","e","a","l","t","h">>,
                      <<"a","r","p","a","-","h">>)
        s6 == Replace(s5, <<"d","e","p","a","r","t","m","e","n","t","-","o","f","-","h","e","a","l","t","h","-","a","n","d","-","h","u","m","a","n","-","s","e","r","v","i","c","e","s">>,
                      <<"h","h","s">>)
    IN  Replace(s6, <<"d","e","p","a","r","t","m","e","n","t","-","o","f","-","d","e","f","e","n","s","e">>,
                <<"d","o","d">>)

\* ------------------------------------------------------------ schema

TXN_FIELDS ==
  << "generated_internal_id", "internal_id", "Award ID", "Recipient Name",
     "Action Date", "Transaction Amount", "Awarding Agency",
     "Awarding Sub Agency", "product_or_service_code",
     "product_or_service_description", "naics_code", "naics_description",
     "pop_state_code" >>

COLS_OUT ==
  << "Award Id", "Recipient Name", "Action Date", "Award Amount", "Piid",
     "Place Of Performance State Code", "Place Of Performance City Name",
     "Place Of Performance ZIP Code", "Place Of Performance County Name",
     "Product Or Service Code (Psc)", "Psc Description", "Naics Code",
     "Naics Description", "Type Of Set Aside", "Type Of Set Aside Description",
     "Contracting Officer Business Size Determination", "Last Modified Date",
     "Is Small Business", "Is 8a Set-Aside" >>

FRIENDLY_TXN ==
  ( "Award ID" :> "Award Id" @@
    "Recipient Name" :> "Recipient Name" @@
    "Action Date" :> "Action Date" @@
    "Transaction Amount" :> "Award Amount" @@
    "product_or_service_code" :> "Product Or Service Code (Psc)" @@
    "product_or_service_description" :> "Psc Description" @@
    "naics_code" :> "Naics Code" @@
    "naics_description" :> "Naics Description" @@
    "pop_state_code" :> "Place Of Performance State Code" )

\* The keys of the `add` dict: the columns filled from the award detail.
ADD_COLS ==
  << "Piid", "Place Of Performance City Name", "Place Of Performance ZIP Code",
     "Place Of Performance County Name", "Type Of Set Aside",
     "Type Of Set Aside Description",
     "Contracting Officer Business Size Determination", "Last Modified Date" >>

\* ------------------------------------------------------------ values

\* pandas' missing-value marker in a column of strings, JSON null, and the
\* NaT that pd.to_datetime(errors="coerce") yields.
NaN == "<NaN>"
None == "<None>"
NaT == "<NaT>"
\* JSON null where an object is expected ("place_of_performance",
\* "page_metadata"): a value of its own kind, as None cannot be compared
\* with an object.
NoneObject == [null |-> TRUE]
\* A missing number (NaN in a float column); a present number n is {n}.
NoNumber == {}
\* The empty string of the detail-derived columns, and the empty dict.
EmptyStr == << >>
EmptyDict == << >>

IsNumberField(c) == c \in {"Transaction Amount", "Award Amount"}
MissingOf(c) == IF IsNumberField(c) THEN NoNumber ELSE NaN

\* ------------------------------------------------- a pandas DataFrame
\* [columns |-> the column labels, rows |-> sequence of functions on them];
\* the labels are a set in DataFrame(rs) and a sequence once selected

\* pd.DataFrame(rows): the column labels are the keys of the rows and a key
\* a row lacks is NaN in that row.  A row does not carry the order of its
\* keys, so `columns` is the set of labels here; df[present] of line 213
\* is what gives the columns an order.
Keys(rs) == UNION {DOMAIN rs[k] : k \in 1..Len(rs)}

\* The value row k brings for label c, NaN where it lacks the key.
RawCell(rs, k, c) == IF c \in DOMAIN rs[k] THEN rs[k][c] ELSE MissingOf(c)

\* pandas infers one type per column from all its cells: a column of
\* nothing but None and NaN with at least one NaN becomes float64, where
\* None is NaN as well.  A column with a string in it, or of None alone,
\* stays an object column and keeps its None.
InferredFloat(rs, c) ==
  /\ ~IsNumberField(c)
  /\ \A k \in 1..Len(rs) : RawCell(rs, k, c) \in {None, NaN}
  /\ \E k \in 1..Len(rs) : RawCell(rs, k, c) = NaN

Cell(rs, k, c) == IF InferredFloat(rs, c) THEN NaN ELSE RawCell(rs, k, c)

\* (mutant) the rows come out newest first instead of in received order
DataFrame_reversed(rs) ==
  LET rev == [k \in 1..Len(rs) |-> rs[Len(rs) + 1 - k]]
  IN  [columns |-> Keys(rs),
       rows |-> [k \in 1..Len(rev) |->
                   [c \in Keys(rs) |-> Cell(rev, k, c)]]]

DataFrame(rs) ==
  [columns |-> Keys(rs),
   rows |-> [k \in 1..Len(rs) |->
               [c \in Keys(rs) |-> Cell(rs, k, c)]]]

\* df[cols]
SelectColumns(df, cols) ==
  [columns |-> cols,
   rows |-> [k \in 1..Len(df.rows) |-> [c \in Range(cols) |-> df.rows[k][c]]]]

\* df.rename(columns=FRIENDLY_TXN)
Friendly(c) == IF c \in DOMAIN FRIENDLY_TXN THEN FRIENDLY_TXN[c] ELSE c
Unfriendly(df, c) == CHOOSE o \in Range(df.columns) : Friendly(o) = c
Rename(df) ==
  LET cols == [k \in 1..Len(df.columns) |-> Friendly(df.columns[k])]
  IN  [columns |-> cols,
       rows |-> [k \in 1..Len(df.rows) |->
                   [c \in Range(cols) |-> df.rows[k][Unfriendly(df, c)]]]]

\* (mutant) the empty table keeps the transaction field names
EmptyFrame_txn_fields(cols) == [columns |-> TXN_FIELDS, rows |-> << >>]

\* pd.DataFrame(columns=COLS_OUT)
EmptyFrame(cols) == [columns |-> cols, rows |-> << >>]

\* df.get(c, <empty Series>) inside the pd.DataFrame({...}) that builds
\* `base`: the empty default aligns to NaN on every row.
GetCell(df, k, c) ==
  IF c \in Range(df.columns) THEN df.rows[k][c] ELSE MissingOf(c)

\* pd.to_datetime(v, errors="coerce") on one cell
IsoDates == {"2024-01-05", "2024-02-10", "2024-03-15"}
ToDatetime(v) == IF v \in IsoDates THEN v ELSE NaT

\* ------------------------------------------------- server samples

\* Rows the transaction search may return (the "results" entries).
TxnRow1 ==
  ( "generated_internal_id" :> "CONT_AWD_1" @@ "internal_id" :> "1001" @@
    "Award ID" :> "A1" @@ "Recipient Name" :> "ACME" @@
    "Action Date" :> "2024-03-15" @@ "Transaction Amount" :> {100} @@
    "Awarding Agency" :> "HHS" @@ "Awarding Sub Agency" :> "NIH" @@
    "product_or_service_code" :> "AN11" @@
    "product_or_service_description" :> "R&D" @@
    "naics_code" :> "541715" @@ "naics_description" :> "RESEARCH" @@
    "pop_state_code" :> "MD" )
\* no generated id, no NAICS, no state code
TxnRow2 ==
  ( "internal_id" :> "1002" @@ "Award ID" :> "A2" @@
    "Recipient Name" :> "BETA" @@ "Action Date" :> "2024-02-10" @@
    "Transaction Amount" :> {200} @@
    "product_or_service_code" :> "AN12" @@
    "product_or_service_description" :> "R&D" )
\* null and empty ids, null recipient, unparseable date
TxnRow3 ==
  ( "generated_internal_id" :> "" @@ "internal_id" :> None @@
    "Award ID" :> "A3" @@ "Recipient Name" :> None @@
    "Action Date" :> "n/a" @@ "Transaction Amount" :> {300} )
\* no id at all, no recipient, no amount, a field that was not asked for
TxnRow4 ==
  ( "Action Date" :> "2024-01-05" @@ "pop_state_code" :> "TX" @@
    "Mod" :> "P00001" )
TxnRows == {TxnRow1, TxnRow2, TxnRow3, TxnRow4}

\* Award details GET /awards/{id}/ may return with status 200.
Detail1 ==
  ( "piid" :> <<"7","5","N","9","8">> @@
    "pop_city_name" :> <<"B","E","T","H","E","S","D","A">> @@
    "pop_zip5" :> <<"2","0","8","9","2">> @@
    "pop_county_name" :> <<"M","O","N","T","G","O","M","E","R","Y">> @@
    "type_set_aside" :> <<"8","A","N">> @@
    "type_set_aside_description" :> <<"8","(","a",")"," ","S","o","l","e"," ","S","o","u","r","c","e">> @@
    "contracting_officers_determination_of_business_size" :>
        <<" ","S","m","a","l","l"," ","B","u","s","i","n","e","s","s"," ">> @@
    "last_modified_date" :> <<"2","0","2","4","-","0","2","-","0","1">> )
\* place of performance nested, nine-digit zip, not a small business
Detail2 ==
  ( "place_of_performance" :>
        ( "city_name" :> <<"A","U","S","T","I","N">> @@
          "location_zip5" :> None @@
          "zip4" :> <<"7","8","7","0","1","1","2","3","4">> @@
          "county_name" :> <<"T","R","A","V","I","S">> ) @@
    "type_set_aside" :> <<"S","B","A">> @@
    "type_set_aside_description" :> <<"S","M","A","L","L"," ","B","U","S","I","N","E","S","S"," ","S","E","T"," ","A","S","I","D","E">> @@
    "contracting_officers_determination_of_business_size" :>
        <<"O","T","H","E","R"," ","T","H","A","N"," ","S","M","A","L","L"," ","B","U","S","I","N","E","S","S">> )
\* 8(a) in the code only, empty description, nulls for what is not set
Detail3 ==
  ( "piid" :> None @@ "place_of_performance" :> NoneObject @@
    "type_set_aside" :> <<"8","(","A",")">> @@
    "type_set_aside_description" :> << >> @@
    "contracting_officers_determination_of_business_size" :>
        <<"S","M","A","L","L"," ","B","U","S","I","N","E","S","S">> )
Details == {Detail1, Detail2, Detail3}
\* The details tried through main, where the files are looked at and not
\* the cells: one sample.
MainDetails == {Detail1}
DetailsFor(c) == IF c = "main" THEN MainDetails ELSE Details

\* ------------------------------------------------- fetch_for_agency

\* Python truthiness of a cell of strings: None and "" are falsy, NaN
\* (a float) is truthy.
Truthy(v) == v \notin {None, ""}
\* str(v) of a cell that passed the `or` chain
StrOf(v) == IF v = NaN THEN "nan" ELSE v

\* `present`, df[present], rename
TxnFrame(rs) ==
  LET df == DataFrame(rs)
      present == SelectSeq(TXN_FIELDS, LAMBDA c : c \in df.columns)
  IN  Rename(SelectColumns(df, present))

\* The 19 keys of the dict that builds `base`, in the order written.
BASE_COLS ==
  << "Award Id", "Recipient Name", "Action Date", "Award Amount", "Piid",
     "Place Of Performance State Code", "Place Of Performance City Name",
     "Place Of Performance ZIP Code", "Place Of Performance County Name",
     "Product Or Service Code (Psc)", "Psc Description", "Naics Code",
     "Naics Description", "Type Of Set Aside", "Type Of Set Aside Description",
     "Contracting Officer Business Size Determination", "Last Modified Date",
     "Is Small Business", "Is 8a Set-Aside" >>

BaseCell(df, k, c) ==
  IF c \in Range(ADD_COLS) THEN EmptyStr
  ELSE IF c \in {"Is Small Business", "Is 8a Set-Aside"} THEN FALSE
  ELSE IF c = "Action Date" THEN ToDatetime(GetCell(df, k, c))
  ELSE GetCell(df, k, c)

BaseFrame(df) ==
  [columns |-> BASE_COLS,
   rows |-> [k \in 1..Len(df.rows) |-> [c \in Range(BASE_COLS) |-> BaseCell(df, k, c)]]]

\* ids.append(str(gid or iid or aid or ""))
IdCell(df, k, c) == IF c \in Range(df.columns) THEN df.rows[k][c] ELSE None
LookupId(df, k) ==
  LET gid == IdCell(df, k, "generated_internal_id")
      iid == IdCell(df, k, "internal_id")
      aid == IdCell(df, k, "Award Id")
  IN  IF Truthy(gid) THEN StrOf(gid)
      ELSE IF Truthy(iid) THEN StrOf(iid)
      ELSE IF Truthy(aid) THEN StrOf(aid)
      ELSE ""
LookupIds(df) == [k \in 1..Len(df.rows) |-> LookupId(df, k)]

\* d.get(k) or "" : an absent key, null and "" all give "".
GetOrEmpty(d, k) ==
  IF k \in DOMAIN d THEN (IF d[k] = None THEN EmptyStr ELSE d[k]) ELSE EmptyStr
\* d.get(k) or {} : an absent key, null and {} all give {}.
GetOrEmptyDict(d, k) ==
  IF k \in DOMAIN d
    THEN (IF d[k] = NoneObject THEN EmptyDict ELSE d[k])
    ELSE EmptyDict
\* a or b on strings
Or(a, b) == IF a # EmptyStr THEN a ELSE b
\* str(z)[:5]
FirstFive(z) == SubSeq(z, 1, IF Len(z) < 5 THEN Len(z) ELSE 5)

\* One iteration of the enrichment loop: the eight values appended to `add`.
DetailValues(det) ==
  LET pop == GetOrEmptyDict(det, "place_of_performance")
      pop_zip_raw ==
        Or(GetOrEmpty(det, "pop_zip5"),
        Or(GetOrEmpty(pop, "location_zip5"),
        Or(GetOrEmpty(pop, "zip5"),
        Or(GetOrEmpty(det, "pop_zip4"), GetOrEmpty(pop, "zip4")))))
  IN  ( "Piid" :> GetOrEmpty(det, "piid") @@
        "Place Of Performance City Name" :>
            Or(GetOrEmpty(det, "pop_city_name"), GetOrEmpty(pop, "city_name")) @@
        "Place Of Performance ZIP Code" :>
            (IF pop_zip_raw # EmptyStr THEN FirstFive(pop_zip_raw) ELSE EmptyStr) @@
        "Place Of Performance County Name" :>
            Or(GetOrEmpty(det, "pop_county_name"), GetOrEmpty(pop, "county_name")) @@
        "Type Of Set Aside" :> GetOrEmpty(det, "type_set_aside") @@
        "Type Of Set Aside Description" :>
            GetOrEmpty(det, "type_set_aside_description") @@
        "Contracting Officer Business Size Determination" :>
            GetOrEmpty(det, "contracting_officers_determination_of_business_size") @@
        "Last Modified Date" :> GetOrEmpty(det, "last_modified_date") )

\* (mutants) no strip(); no upper()
is_small_business_no_strip(x) == Upper(x) = <<"S","M","A","L","L"," ","B","U","S","I","N","E","S","S">>
is_8a_case_sensitive(x) == Contains(<<"8", "(", "A">>, x)

\* The flag helpers; every value of these columns is a str here.
is_small_business(x) == Upper(Strip(x)) = <<"S","M","A","L","L"," ","B","U","S","I","N","E","S","S">>
is_8a(x) == Contains(<<"8", "(", "A">>, Upper(x))

\* base[k] = v for the eight lists, then the two flag columns.
EnrichedRow(row, vals) ==
  LET r == [c \in DOMAIN row |-> IF c \in DOMAIN vals THEN vals[c] ELSE row[c]]
  IN  [r EXCEPT
         !["Is Small Business"] =
             is_small_business(r["Contracting Officer Business Size Determination"]),
         !["Is 8a Set-Aside"] =
             is_8a(r["Type Of Set Aside Description"]) \/ is_8a(r["Type Of Set Aside"])]

Enriched(b, adds) ==
  [columns |-> b.columns,
   rows |-> [k \in 1..Len(b.rows) |-> EnrichedRow(b.rows[k], adds[k])]]

\* ------------------------------------------------- write_outputs

\* groupby("Recipient Name", dropna=False): None and NaN are one null key.
GroupKey(v) == IF v \in {None, NaN} THEN NaN ELSE v
\* The group keys in groupby's sorted order: the names of the sample rows
\* ascending, the null key last.
SortedKeys == << "ACME", "BETA", NaN >>

\* .sum() skips a missing amount; a group with none sums to 0.
AmountOf(a) == IF a = NoNumber THEN 0 ELSE CHOOSE n \in a : TRUE
RECURSIVE GroupSum(_, _)
GroupSum(rs, key) ==
  IF rs = << >> THEN 0
  ELSE GroupSum(Tail(rs), key)
         + (IF GroupKey(Head(rs)["Recipient Name"]) = key
              THEN AmountOf(Head(rs)["Award Amount"]) ELSE 0)

\* .sum().reset_index(): one row per key that occurs, in key order
Grouped(df) ==
  LET keys == SelectSeq(SortedKeys,
                LAMBDA key : \E k \in 1..Len(df.rows) :
                               GroupKey(df.rows[k]["Recipient Name"]) = key)
  IN  [g \in 1..Len(keys) |->
         ("Recipient Name" :> keys[g] @@ "Award Amount" :> GroupSum(df.rows, keys[g]))]

\* .sort_values("Award Amount", ascending=False); equal totals keep the
\* order of the keys.
InsertDesc(seq, x) ==
  LET before == SelectSeq(seq, LAMBDA y : y["Award Amount"] >= x["Award Amount"])
      after == SelectSeq(seq, LAMBDA y : y["Award Amount"] < x["Award Amount"])
  IN  before \o << x >> \o after
RECURSIVE SortDesc(_)
SortDesc(seq) ==
  IF seq = << >> THEN << >>
  ELSE InsertDesc(SortDesc(SubSeq(seq, 1, Len(seq) - 1)), seq[Len(seq)])

\* (mutant) groupby without dropna=False: the null group is left out
Aggregate_dropna(df) ==
  SortDesc(SelectSeq(Grouped(df), LAMBDA g : g["Recipient Name"] # NaN))

\* agg: the rows of the top-recipients CSV
Aggregate(df) == SortDesc(Grouped(df))

\* ------------------------------------------------------------ bounds

\* Most transactions the server returns for one agency, over all pages.
MaxRows == 2
\* Most agency filters on one command line.
MaxTargets == 2

\* _get_detail's default `tries`
TRIES == 4

\* ------------------------------------------------------------ inputs

NIH == <<"N","a","t","i","o","n","a","l"," ","I","n","s","t","i","t","u","t","e","s"," ","o","f"," ","H","e","a","l","t","h">>
AgencyNames == {NIH, <<"R", "&", "D">>}

TOPTIER == <<"t","o","p","t","i","e","r">>
SUBTIER == <<"s","u","b","t","i","e","r">>
\* Tier values a direct caller of fetch_for_agency may pass.
TierSamples ==
  {TOPTIER, <<"m","i","d","t","i","e","r">>, <<" ","T","o","p","T","i","e","r"," ">>}

\* max_pages: None is {}, an integer n is {n}.
NoCap == {}
\* The caps a direct caller tries, and those tried through main.
PageCaps == {NoCap, {-1}, {0}, {1}}
MainPageCaps == {NoCap, {1}}

RECURSIVE SeqsOfLen(_, _)
SeqsOfLen(S, n) ==
  IF n = 0 THEN {<< >>}
  ELSE {Append(s, x) : s \in SeqsOfLen(S, n - 1), x \in S}
SeqsUpTo(S, n) == UNION {SeqsOfLen(S, k) : k \in 0..n}

\* (mutant) 404 is tried again as well
RETRY_STATUSES_and_404 == {404, 429, 500, 502, 503, 504}

\* Statuses the search endpoint may answer with once the session's own
\* retries are over (a 302 without a Location header is not followed), and
\* those of the detail endpoint.
POST_STATUSES == {200, 201, 302, 404, 500}
GET_STATUSES == {200, 404, 503}
RETRY_STATUSES == {429, 500, 502, 503, 504}
\* In place of a status: s.get raised a RequestException.
REQUEST_EXCEPTION == 0
\* random.random() * 0.05, in milliseconds: the least and the most
Jitters == {0, 49}
\* The draws tried through main: the shortest sleep only.
MainJitters == {0}
JittersFor(c) == IF c = "main" THEN MainJitters ELSE Jitters

\* A search response: its status, whether its body parses as JSON, and the
\* parsed body (a dict that may lack "results" or "page_metadata", or hold
\* null for them).
SearchBodies(room) ==
  {EmptyDict}
  \cup {("results" :> rs) : rs \in SeqsUpTo(TxnRows, room)}
  \cup {("results" :> rs @@ "page_metadata" :> ("hasNext" :> h)) :
          rs \in SeqsUpTo(TxnRows, room), h \in BOOLEAN}
\* A body with null for both keys.
NullBody == ("results" :> None @@ "page_metadata" :> NoneObject)
SearchResponses(room) ==
  {[status |-> st, json |-> FALSE, data |-> EmptyDict] : st \in POST_STATUSES}
  \cup {[status |-> st, json |-> TRUE, data |-> d] :
          st \in POST_STATUSES, d \in SearchBodies(room)}

\* ------------------------------------------------------------ state

VARIABLES
  variant,    \* "src": src/fetch_usaspending.py, "site": _site/src/fetch_usaspending.py
  caller,     \* "main", or "direct" for a call of fetch_for_agency itself
  targets,    \* main's list of (tier, name)
  no_detail,  \* --no-detail
  max_pages,  \* --max-pages
  cur,        \* index in targets of the agency being processed
  slug,       \* main: slug
  pc,         \* where the run stands
  page,       \* fetch_for_agency: page
  rows,       \* fetch_for_agency: rows
  base,       \* fetch_for_agency: base
  ids,        \* fetch_for_agency: ids
  add,        \* fetch_for_agency: the rows of `add` filled so far
  attempt,    \* _get_detail: GET requests issued by the call in progress
  result,     \* the DataFrame fetch_for_agency returned
  files,      \* the output directory: [slug, kind, by]: by = index of the writer
  posts,      \* history: page numbers POSTed by this call, in order
  pages,      \* history: the responses the page loop in progress has received:
              \*   [success: the status was 2xx, results, hasNext]
  lookups,    \* history: ids passed to _get_detail by this call, in order
  how,        \* history: how each detail lookup ended
  attempted,  \* history: targets for which fetch_for_agency was called
  report,     \* history: what became of each processed target: [target, slug, ok,
              \*   empty, stage: "done", or where it failed: "fetch", "write"]
  got,        \* history: the detail each row was enriched with ({} when its
              \*   lookup was skipped or ended without one)
  last_get,   \* history: << [status, json, jitter] >> of the GET the last step
              \*   of the enrichment loop issued (json: it was a 200 whose body
              \*   parsed), << >> when it issued none
  written     \* history: what the write_outputs call of this iteration
              \*   aggregated, << >> or << [df, agg] >>

vars == << variant, caller, targets, no_detail, max_pages, cur, slug, pc, page, rows,
           base, ids, add, attempt, result, files, posts, pages, lookups,
           how, attempted, report, got, last_get, written >>

inputs == << variant, caller, targets, no_detail, max_pages >>
locals == << page, rows, base, ids, add, attempt, result, posts, pages,
             lookups, how, got, last_get >>

NoFrame == [columns |-> << >>, rows |-> << >>]

\* The locals of a fetch_for_agency call before its first statement.
FreshLocals ==
  /\ page = 1 /\ rows = << >> /\ base = NoFrame /\ ids = << >>
  /\ add = << >> /\ attempt = 0 /\ result = NoFrame /\ posts = << >>
  /\ pages = << >> /\ lookups = << >> /\ how = << >>
  /\ got = << >> /\ last_get = << >>

ResetLocals ==
  /\ page' = 1 /\ rows' = << >> /\ base' = NoFrame /\ ids' = << >>
  /\ add' = << >> /\ attempt' = 0 /\ result' = NoFrame /\ posts' = << >>
  /\ pages' = << >> /\ lookups' = << >> /\ how' = << >>
  /\ got' = << >> /\ last_get' = << >>

\* main: targets from --toptier and --subtier, NIH when none is given.
\* src lists the toptiers first, _site the subtiers.
BuildTargets(v, toptiers, subtiers) ==
  LET tops == [k \in 1..Len(toptiers) |-> [tier |-> TOPTIER, name |-> toptiers[k]]]
      subs == [k \in 1..Len(subtiers) |-> [tier |-> SUBTIER, name |-> subtiers[k]]]
      all == IF v = "src" THEN tops \o subs ELSE subs \o tops
  IN  IF all = << >> THEN << [tier |-> SUBTIER, name |-> NIH] >> ELSE all

Init ==
  /\ variant \in {"src", "site"}
  /\ caller = "main"
  /\ \E toptiers \in SeqsUpTo(AgencyNames, 1) :
       \E subtiers \in SeqsUpTo(AgencyNames, MaxTargets - 1) :
         targets = BuildTargets(variant, toptiers, subtiers)
  /\ no_detail \in BOOLEAN
  /\ max_pages \in MainPageCaps
  /\ cur = 0
  /\ slug = << >>
  /\ pc = "loop"
  /\ FreshLocals
  /\ files = {}
  /\ attempted = << >>
  /\ report = << >>
  /\ written = << >>

\* fetch_for_agency(tier, name, ...) called on its own, with any tier.
InitFetch ==
  /\ variant \in {"src", "site"}
  /\ caller = "direct"
  /\ \E t \in TierSamples : targets = << [tier |-> t, name |-> NIH] >>
  /\ no_detail \in BOOLEAN
  /\ max_pages \in PageCaps
  /\ cur = 1
  /\ slug = << >>
  /\ pc = "call"
  /\ FreshLocals
  /\ files = {}
  /\ attempted = << 1 >>
  /\ report = << >>
  /\ written = << >>

\* slug = friendly_slug(name) in src, slugify(name) in _site
Slug(v, name) == IF v = "src" THEN friendly_slug(name) ELSE slugify_site(name)

\* ------------------------------------------------------------ main

\* (mutant) the next agency is started while the table of the current one
\* still waits to be written
MainIter_overlapped ==
  /\ pc \in {"loop", "write"} /\ cur < Len(targets)
  /\ cur' = cur + 1
  /\ slug' = Slug(variant, targets[cur + 1].name)
  /\ attempted' = Append(attempted, cur + 1)
  /\ pc' = "call"
  /\ written' = << >>
  /\ ResetLocals
  /\ UNCHANGED << inputs, files, report >>

\* for tier, name in targets: slug = ...; try: fetch_for_agency(...)
MainIter ==
  /\ pc = "loop" /\ cur < Len(targets)
  /\ cur' = cur + 1
  /\ slug' = Slug(variant, targets[cur + 1].name)
  /\ attempted' = Append(attempted, cur + 1)
  /\ pc' = "call"
  /\ written' = << >>
  /\ UNCHANGED << inputs, locals, files, report >>

\* the loop is over: main returns
MainReturn ==
  /\ pc = "loop" /\ cur = Len(targets)
  /\ pc' = "exit"
  /\ UNCHANGED << inputs, cur, slug, locals, files, attempted, report, written >>

\* What a return and a raise of fetch_for_agency lead to.
Returned == IF caller = "main" THEN "write" ELSE "returned"
Raised == "raised"
\* Where a raise of write_outputs leads to.
WriteRaised == "write_raised"

\* build_agency_filter (_site only): tier = (tier or "").strip().lower()
ValidTier(tier) == Lower(Strip(tier)) \in {TOPTIER, SUBTIER}
build_agency_filter_ok(v, tier) == v = "src" \/ ValidTier(tier)

\* fetch_for_agency up to the page loop
FetchStart ==
  /\ pc = "call"
  /\ pc' = IF build_agency_filter_ok(variant, targets[cur].tier) THEN "page" ELSE Raised
  /\ UNCHANGED << inputs, cur, slug, locals, files, attempted, report, written >>

\* if max_pages and page > max_pages
CapReached(cap, p) == cap # NoCap /\ cap # {0} /\ \A n \in cap : p > n

\* r.raise_for_status(): HTTPError for 4xx and 5xx only
RaisesForStatus(st) == 400 <= st /\ st < 600

\* data.get("results", []) or [] ; (data.get("page_metadata") or {}).get("hasNext")
ResultsOf(data) ==
  IF "results" \in DOMAIN data
    THEN (IF data["results"] = None THEN << >> ELSE data["results"])
    ELSE << >>
HasNext(data) ==
  LET meta == GetOrEmptyDict(data, "page_metadata")
  IN  /\ "hasNext" \in DOMAIN meta
      /\ meta["hasNext"]

\* An HTTP success status (2xx).
Success(st) == 200 <= st /\ st < 300

\* (mutant) an empty page does not stop the loop
LastPage_ignores_empty(data) == ~HasNext(data)

\* The page loop stops after this page.
LastPage(data) == ~HasNext(data) \/ ResultsOf(data) = << >>

\* One iteration of the page loop whose request got the response r.
Page(r) ==
       /\ posts' = Append(posts, page)
       /\ IF (r.status # 200 /\ RaisesForStatus(r.status)) \/ ~r.json
            THEN /\ pages' = Append(pages, [success |-> Success(r.status),
                                            results |-> << >>, hasNext |-> FALSE])
                 /\ pc' = Raised
                 /\ UNCHANGED << page, rows >>
            ELSE /\ pages' = Append(pages, [success |-> Success(r.status),
                                            results |-> ResultsOf(r.data),
                                            hasNext |-> HasNext(r.data)])
                 /\ rows' = rows \o ResultsOf(r.data)
                 /\ IF LastPage(r.data)
                      THEN pc' = "normalize" /\ page' = page
                      ELSE /\ page' = page + 1
                           /\ pc' = IF CapReached(max_pages, page + 1)
                                      THEN "normalize" ELSE "page"

\* One iteration of the page loop whose request got a response.
PostTxn ==
  /\ pc = "page"
  /\ \/ \E r \in SearchResponses(MaxRows - Len(rows)) : Page(r)
     \/ \E st \in POST_STATUSES :
          Page([status |-> st, json |-> TRUE, data |-> NullBody])
  /\ UNCHANGED << inputs, cur, slug, base, ids, add, attempt, result, files, lookups,
                  how, got, last_get, attempted, report, written >>

\* One iteration whose request raised (no connection, a timeout).
PostTxnError ==
  /\ pc = "page"
  /\ posts' = Append(posts, page)
  /\ pc' = Raised
  /\ UNCHANGED << inputs, cur, slug, page, rows, base, ids, add, attempt, result, files,
                  pages, lookups, how, got, last_get, attempted, report, written >>

\* From `if not rows` to the start of the enrichment loop.
Normalize ==
  /\ pc = "normalize"
  /\ IF rows = << >>
       THEN /\ result' = EmptyFrame(COLS_OUT)
            /\ pc' = Returned
            /\ UNCHANGED << base, ids >>
       ELSE LET df == TxnFrame(rows)
                b == BaseFrame(df)
            IN  IF no_detail
                  THEN /\ result' = SelectColumns(b, COLS_OUT)
                       /\ pc' = Returned
                       /\ UNCHANGED << base, ids >>
                  ELSE /\ base' = b
                       /\ ids' = LookupIds(df)
                       /\ pc' = "detail"
                       /\ UNCHANGED result
  /\ pages' = << >>
  /\ UNCHANGED << inputs, cur, slug, page, rows, add, attempt, files, posts,
                  lookups, how, got, last_get, attempted, report, written >>

\* det = {} for a row without an id
SkipDetail ==
  /\ pc = "detail" /\ Len(add) < Len(ids)
  /\ ids[Len(add) + 1] = ""
  /\ add' = Append(add, DetailValues(EmptyDict))
  /\ how' = Append(how, "skipped")
  /\ got' = Append(got, EmptyDict)
  /\ last_get' = << >>
  /\ UNCHANGED << inputs, cur, slug, pc, page, rows, base, ids, attempt, result, files,
                  posts, pages, lookups, attempted, report, written >>

\* (mutant) a detail that arrives after the longest sleep is dropped
EndLookup_late_dropped(det, why) ==
  /\ add' = Append(add, DetailValues(IF last_get'[1].jitter = 49 THEN EmptyDict ELSE det))
  /\ got' = Append(got, det)
  /\ how' = Append(how, why)
  /\ attempt' = 0
  /\ pc' = pc

\* _get_detail ends with det: the loop body appends its eight values.
EndLookup(det, why) ==
  /\ add' = Append(add, DetailValues(det))
  /\ got' = Append(got, det)
  /\ how' = Append(how, why)
  /\ attempt' = 0
  /\ pc' = pc

\* continue: the next attempt of the same lookup
NextAttempt ==
  /\ attempt' = attempt + 1
  /\ UNCHANGED << add, got, how, pc >>

\* (mutant) the last failure is raised to the caller instead of swallowed
OnExhausted_raise ==
  /\ how' = Append(how, "exhausted")
  /\ pc' = "raised"
  /\ UNCHANGED << add, got, attempt >>

\* The last attempt failed too: `return {}`.
OnExhausted == EndLookup(EmptyDict, "exhausted")

\* One attempt of _get_detail: `attempt` is the loop index before it.
GetDetail ==
  /\ pc = "detail" /\ Len(add) < Len(ids)
  /\ ids[Len(add) + 1] # ""
  /\ attempt < TRIES
  /\ lookups' = IF attempt = 0 THEN Append(lookups, ids[Len(add) + 1]) ELSE lookups
  /\ \E j \in JittersFor(caller), st \in GET_STATUSES \cup {REQUEST_EXCEPTION} :
     \E js \in (IF st = 200 THEN BOOLEAN ELSE {FALSE}) :
       /\ last_get' = << [status |-> st, json |-> js, jitter |-> j] >>
       /\ IF st = 200 /\ js
            \* return r.json() or {}: the body's object, {} for a null body
            THEN \E det \in DetailsFor(caller) \cup {EmptyDict} : EndLookup(det, "ok")
            ELSE IF st = 200
              \* r.json() raises JSONDecodeError, a RequestException
              \* (requests 2.27 and later): the except clause
              THEN IF attempt < TRIES - 1 THEN NextAttempt ELSE OnExhausted
            ELSE IF st \in RETRY_STATUSES
              THEN IF attempt + 1 < TRIES THEN NextAttempt ELSE OnExhausted
              ELSE IF st = REQUEST_EXCEPTION
                THEN IF attempt < TRIES - 1 THEN NextAttempt ELSE OnExhausted
                ELSE EndLookup(EmptyDict, "refused")
  /\ UNCHANGED << inputs, cur, slug, page, rows, base, ids, result, files, posts,
                  pages, attempted, report, written >>

\* After the enrichment loop: the eight columns, the flags, return.
Finish ==
  /\ pc = "detail" /\ Len(add) = Len(ids)
  /\ result' = SelectColumns(Enriched(base, add), COLS_OUT)
  /\ pc' = Returned
  /\ UNCHANGED << inputs, cur, slug, page, rows, base, ids, add, attempt, files, posts,
                  pages, lookups, how, got, last_get, attempted, report, written >>

\* write_outputs: the awards CSV, then the JSON, then the aggregate, this
\* one only `if not df.empty`.
WriteOrder(df) ==
  << "csv", "json" >> \o (IF df.rows # << >> THEN << "agg" >> ELSE << >>)
Written(df) == Range(WriteOrder(df))

\* The directory after target `by` wrote the files `kinds` of slug s.
Put(fs, s, kinds, by) ==
  {f \in fs : ~(f.slug = s /\ f.kind \in kinds)}
    \cup {[slug |-> s, kind |-> k, by |-> by] : k \in kinds}

\* write_outputs returns: every file of the agency is written.
WriteOutputs ==
  /\ pc = "write"
  /\ LET kinds == Written(result)
     IN  /\ files' = Put(files, slug, kinds, cur)
         /\ report' = Append(report, [target |-> cur, slug |-> slug, ok |-> TRUE,
                                      empty |-> (result.rows = << >>),
                                      stage |-> "done"])
         /\ written' = IF "agg" \in kinds
                          THEN << [df |-> result, agg |-> Aggregate(result)] >>
                          ELSE << >>
  /\ pc' = "loop"
  /\ ResetLocals
  /\ UNCHANGED << inputs, cur, slug, attempted >>

\* write_outputs raises (to_csv, to_json or the aggregate's to_csv fails:
\* no space, no permission): the first n files of the order were created
\* or replaced before the raise, the last of them possibly incomplete; the
\* exception reaches main's except clause.
WriteOutputsError ==
  /\ pc = "write"
  /\ \E n \in 0..Len(WriteOrder(result)) :
       files' = Put(files, slug, Range(SubSeq(WriteOrder(result), 1, n)), cur)
  /\ pc' = WriteRaised
  /\ UNCHANGED << inputs, cur, slug, locals, attempted, report, written >>

\* (mutant) break instead of continue
Catch_break ==
  /\ pc \in {Raised, WriteRaised} /\ caller = "main"
  /\ report' = Append(report, [target |-> cur, slug |-> slug,
                               ok |-> FALSE, empty |-> TRUE,
                               stage |-> IF pc = Raised THEN "fetch" ELSE "write"])
  /\ cur' = Len(targets)
  /\ pc' = "loop"
  /\ ResetLocals
  /\ UNCHANGED << inputs, slug, files, attempted, written >>

\* except Exception as e: print(...); continue
Catch ==
  /\ pc \in {Raised, WriteRaised} /\ caller = "main"
  /\ report' = Append(report, [target |-> cur, slug |-> slug,
                               ok |-> FALSE, empty |-> TRUE,
                               stage |-> IF pc = Raised THEN "fetch" ELSE "write"])
  /\ pc' = "loop"
  /\ ResetLocals
  /\ UNCHANGED << inputs, cur, slug, files, attempted, written >>

NextFetch ==
  \/ FetchStart
  \/ PostTxn
  \/ PostTxnError
  \/ Normalize
  \/ SkipDetail
  \/ GetDetail
  \/ Finish

Next ==
  \/ MainIter
  \/ MainReturn
  \/ NextFetch
  \/ WriteOutputs
  \/ WriteOutputsError
  \/ Catch

Spec == Init /\ [][Next]_vars
SpecFetch == InitFetch /\ [][NextFetch]_vars

\* ------------------------------------------------------------ claims

Last(seq) == seq[Len(seq)]
Upto(n) == [k \in 1..n |-> k]
RECURSIVE Flatten(_)
Flatten(ss) == IF ss = << >> THEN << >> ELSE Head(ss) \o Flatten(Tail(ss))

OutputKinds == {"csv", "json", "agg"}

\* C1: right after write_outputs has returned for an agency whose fetch
\* succeeded, the output directory holds the awards CSV, the awards JSON
\* and the top-recipients CSV written for that agency in this run, also
\* when the fetch returned zero transactions.
C1_AllThreeFilesWritten ==
  (pc = "loop" /\ report # << >> /\ Last(report).ok) =>
    \A kind \in OutputKinds :
      [slug |-> Last(report).slug, kind |-> kind, by |-> Last(report).target] \in files

\* C2: main calls fetch_for_agency once per target, in list order; a raise
\* inside the try, of fetch_for_agency or of write_outputs, is caught and
\* reported for that target, the loop goes on from its head with the next
\* target, and main returns only after the last one, whatever failed.
C2_EveryAgencyAttempted ==
  /\ [](/\ attempted = Upto(cur)
        /\ Len(report) = (IF pc \in {"loop", "exit"} THEN cur ELSE cur - 1)
        /\ \A k \in 1..Len(report) : report[k].target = k
        /\ pc = "exit" => cur = Len(targets))
  /\ [][ /\ pc \in {Raised, WriteRaised} =>
              /\ pc' = "loop" /\ cur' = cur
              /\ Len(report') = Len(report) + 1
              /\ ~Last(report').ok /\ Last(report').target = cur
    ]_vars

\* main has returned after two agencies that both failed: the first while
\* it was fetched, the second while its files were written, one of which
\* was left behind.
C2_Witness ==
  /\ pc = "exit" /\ Len(targets) = 2 /\ Len(report) = 2
  /\ ~report[1].ok /\ report[1].stage = "fetch"
  /\ ~report[2].ok /\ report[2].stage = "write"
  /\ \E f \in files : f.by = 2

\* C3: with no page cap the pages requested are 1, 2, ..., in order; when
\* the loop ends normally the last page requested is the first one that
\* reported no next page or had no results, and the accumulator holds the
\* rows of all pages in response order; nothing is requested after it.
StopsPaging(p) == ~p.hasNext \/ p.results = << >>
C3_PagesInOrderUntilLast ==
  max_pages = NoCap =>
    /\ posts = Upto(Len(posts))
    /\ \A k \in 1..(Len(pages) - 1) : ~StopsPaging(pages[k])
    /\ (pc = "page" /\ pages # << >>) => ~StopsPaging(Last(pages))
    /\ pc = "normalize" =>
         /\ Len(posts) = Len(pages)
         /\ StopsPaging(Last(pages))
         /\ rows = Flatten([k \in 1..Len(pages) |-> pages[k].results])

\* two pages were fetched, the second one ended the loop
C3_Witness ==
  /\ max_pages = NoCap /\ pc = "normalize"
  /\ Len(posts) = 2 /\ Len(rows) = 2 /\ pages[1].results # << >>

\* fetch_for_agency has returned its table
HasReturned == pc \in {"returned", "write"}

FlagCols == {"Is Small Business", "Is 8a Set-Aside"}

\* C4: a detail lookup whose every attempt failed raises nothing: the
\* transaction keeps its row in the returned table, with the eight
\* enrichment columns empty and both flags false.
C4_ExhaustedLookupKeepsRow ==
  \A k \in 1..Len(how) :
    how[k] = "exhausted" =>
      /\ pc # "raised"
      /\ \A c \in Range(ADD_COLS) : add[k][c] = EmptyStr
      /\ HasReturned =>
           /\ Len(result.rows) = Len(rows)
           /\ \A c \in Range(ADD_COLS) : result.rows[k][c] = EmptyStr
           /\ \A c \in FlagCols : result.rows[k][c] = FALSE

\* the table was returned after a lookup that failed on all attempts
C4_Witness ==
  /\ HasReturned
  /\ \E k \in 1..Len(how) : how[k] = "exhausted"

\* C5: a search response that is not a success (not 2xx) makes
\* fetch_for_agency raise: the call goes on to no further page, no
\* normalization and no return.
C5_FailedPageRaises ==
  \A k \in 1..Len(pages) : ~pages[k].success => pc = "raised"

\* C6: a tier other than toptier or subtier is rejected before any HTTP
\* request is issued.
C6_InvalidTierRejected ==
  targets[cur].tier \notin {TOPTIER, SUBTIER} =>
    /\ posts = << >>
    /\ lookups = << >>
    /\ ~HasReturned

\* C7: the table fetch_for_agency returns has the 19 columns of COLS_OUT,
\* in that order, and every row has exactly these columns, on every return
\* path.
C7_FixedColumns ==
  HasReturned =>
    /\ result.columns = COLS_OUT
    /\ Len(result.columns) = 19
    /\ \A k \in 1..Len(result.rows) : DOMAIN result.rows[k] = Range(COLS_OUT)

\* a table with no rows was returned
C7_Witness == HasReturned /\ posts # << >> /\ result.rows = << >>

\* The string columns copied from the transaction rows.
TxnStringCols ==
  {"Award Id", "Recipient Name", "Place Of Performance State Code",
   "Product Or Service Code (Psc)", "Psc Description", "Naics Code",
   "Naics Description"}

\* C8: in the returned table no string column is NaN where the server left
\* the field out of a row, and the boolean columns hold booleans.
C8_NoMissingCells ==
  HasReturned =>
    \A k \in 1..Len(result.rows) :
      /\ \A c \in TxnStringCols : result.rows[k][c] # NaN
      /\ \A c \in FlagCols : result.rows[k][c] \in BOOLEAN

\* c and d are the same letter in either case, or the same character
SameLetter(c, d) ==
  \/ c = d
  \/ \E n \in 1..26 : {c, d} = {LowerAlpha[n], UpperAlpha[n]}

\* x is t surrounded by whitespace only, letters compared without case
TrimmedEquals(x, t) ==
  \E lead \in 0..Len(x) :
    /\ lead + Len(t) <= Len(x)
    /\ \A k \in 1..lead : IsSpace(x[k])
    /\ \A k \in 1..Len(t) : SameLetter(x[lead + k], t[k])
    /\ \A k \in (lead + Len(t) + 1)..Len(x) : IsSpace(x[k])

\* C9: in every returned row, Is Small Business is true exactly when the
\* business size determination, trimmed and uppercased, is SMALL BUSINESS.
C9_SmallBusinessFlag ==
  HasReturned =>
    \A k \in 1..Len(result.rows) :
      result.rows[k]["Is Small Business"] =
        TrimmedEquals(result.rows[k]["Contracting Officer Business Size Determination"],
                      <<"S","M","A","L","L"," ","B","U","S","I","N","E","S","S">>)

\* a returned table with a small business row whose text needs trimming
\* and uppercasing, and a row of another size
C9_Witness ==
  /\ HasReturned
  /\ \E k \in 1..Len(result.rows) :
       /\ result.rows[k]["Is Small Business"]
       /\ result.rows[k]["Contracting Officer Business Size Determination"]
            # <<"S","M","A","L","L"," ","B","U","S","I","N","E","S","S">>
  /\ \E k \in 1..Len(result.rows) :
       /\ ~result.rows[k]["Is Small Business"]
       /\ result.rows[k]["Contracting Officer Business Size Determination"] # EmptyStr

\* x contains 8(A, the letter in either case
Has8A(x) ==
  \E k \in 1..(Len(x) - 2) :
    x[k] = "8" /\ x[k + 1] = "(" /\ x[k + 2] \in {"a", "A"}

\* C10: in every returned row, Is 8a Set-Aside is true exactly when the
\* set-aside type or its description contains 8(A, case-insensitively.
C10_EightAFlag ==
  HasReturned =>
    \A k \in 1..Len(result.rows) :
      result.rows[k]["Is 8a Set-Aside"] =
        (Has8A(result.rows[k]["Type Of Set Aside"])
           \/ Has8A(result.rows[k]["Type Of Set Aside Description"]))

\* a returned table with a row flagged through a lowercase description
\* only, and an unflagged row that has a set-aside
C10_Witness ==
  /\ HasReturned
  /\ \E k \in 1..Len(result.rows) :
       /\ result.rows[k]["Is 8a Set-Aside"]
       /\ ~Has8A(result.rows[k]["Type Of Set Aside"])
       /\ ~Contains(<<"8", "(", "A">>, result.rows[k]["Type Of Set Aside Description"])
  /\ \E k \in 1..Len(result.rows) :
       /\ ~result.rows[k]["Is 8a Set-Aside"]
       /\ result.rows[k]["Type Of Set Aside"] # EmptyStr

\* The rows of df whose recipient falls in the group of key.
RowsOfGroup(df, key) ==
  {k \in 1..Len(df.rows) : GroupKey(df.rows[k]["Recipient Name"]) = key}
RECURSIVE SumOver(_, _)
SumOver(df, ks) ==
  IF ks = {} THEN 0
  ELSE LET k == CHOOSE x \in ks : TRUE
       IN  AmountOf(df.rows[k]["Award Amount"]) + SumOver(df, ks \ {k})

\* C11: the aggregate written for a non-empty table has one row per
\* distinct Recipient Name, the rows without a name forming one group;
\* each total is the sum of Award Amount over the rows of that recipient;
\* the rows are in non-increasing order of total.
C11_AggregatePerRecipient ==
  \A w \in Range(written) :
    /\ w.df.rows # << >>
    /\ \A k \in 1..Len(w.df.rows) :
         \E g \in 1..Len(w.agg) :
           w.agg[g]["Recipient Name"] = GroupKey(w.df.rows[k]["Recipient Name"])
    /\ \A g, h \in 1..Len(w.agg) :
         w.agg[g]["Recipient Name"] = w.agg[h]["Recipient Name"] => g = h
    /\ \A g \in 1..Len(w.agg) :
         /\ RowsOfGroup(w.df, w.agg[g]["Recipient Name"]) # {}
         /\ w.agg[g]["Award Amount"] =
              SumOver(w.df, RowsOfGroup(w.df, w.agg[g]["Recipient Name"]))
    /\ \A g \in 1..(Len(w.agg) - 1) :
         w.agg[g]["Award Amount"] >= w.agg[g + 1]["Award Amount"]

\* an aggregate of two groups was written, the larger total first although
\* its key sorts last: the group of the rows without a name
C11_Witness ==
  \E w \in Range(written) :
    /\ Len(w.agg) = 2
    /\ w.agg[1]["Recipient Name"] = NaN
    /\ w.agg[1]["Award Amount"] > w.agg[2]["Award Amount"]

\* two rows of one recipient were summed into one aggregate row
C11_WitnessSummed ==
  \E w \in Range(written) :
    /\ Len(w.df.rows) = 2 /\ Len(w.agg) = 1
    /\ w.agg[1]["Award Amount"] = 200

\* The value of a transaction's field, missing when the server left it out.
FieldOf(txn, f) == IF f \in DOMAIN txn THEN txn[f] ELSE MissingOf(f)

\* A text value with null read as missing: tabulation may turn the null of
\* a transaction into NaN, which drops nothing from the row.
NullAsMissing(v) == IF v = None THEN NaN ELSE v

\* Row k of the table was made from transaction t.
MadeFrom(row, t) ==
  /\ NullAsMissing(row["Award Id"]) = NullAsMissing(FieldOf(t, "Award ID"))
  /\ NullAsMissing(row["Recipient Name"]) = NullAsMissing(FieldOf(t, "Recipient Name"))
  /\ row["Award Amount"] = FieldOf(t, "Transaction Amount")
  /\ NullAsMissing(row["Place Of Performance State Code"])
       = NullAsMissing(FieldOf(t, "pop_state_code"))
  /\ NullAsMissing(row["Naics Code"]) = NullAsMissing(FieldOf(t, "naics_code"))

\* C12: the returned table has one row per accumulated transaction, in the
\* order received: row k is made from the k-th transaction and, after
\* enrichment, carries the detail values looked up for it.
C12_OneRowPerTransactionInOrder ==
  HasReturned =>
    /\ Len(result.rows) = Len(rows)
    /\ \A k \in 1..Len(rows) : MadeFrom(result.rows[k], rows[k])
    /\ ~no_detail =>
         /\ Len(add) = Len(rows)
         /\ \A k \in 1..Len(rows) :
              \A c \in Range(ADD_COLS) : result.rows[k][c] = add[k][c]

\* an enriched table of two different transactions received on two pages,
\* with different details
C12_Witness ==
  /\ HasReturned /\ ~no_detail
  /\ Len(rows) = 2 /\ Len(posts) = 2
  /\ rows[1] # rows[2]
  /\ add[1] # add[2]
  /\ ~MadeFrom(result.rows[1], rows[2])

\* The table that the accumulated transactions and the details received
\* for them determine.
TableOf(txns, skip, dets) ==
  IF txns = << >> THEN EmptyFrame(COLS_OUT)
  ELSE IF skip THEN SelectColumns(BaseFrame(TxnFrame(txns)), COLS_OUT)
  ELSE SelectColumns(Enriched(BaseFrame(TxnFrame(txns)),
                              [k \in 1..Len(dets) |-> DetailValues(dets[k])]),
                     COLS_OUT)

\* C13: the returned table is determined by the responses alone: whatever
\* jitter was drawn before each GET and however long the run slept, the
\* same transactions and the same details give the same rows.
C13_JitterFreeResult ==
  HasReturned => result = TableOf(rows, no_detail, got)

\* a table was returned whose last detail arrived after the longest jitter
C13_Witness ==
  /\ HasReturned /\ Len(got) = 2
  /\ Last(how) = "ok"
  /\ last_get # << >> /\ last_get[1].jitter = 49
  /\ got[1] # EmptyDict

\* The statuses _get_detail tries again on.
Retryable(st) == st \in {429, 500, 502, 503, 504}

\* C16 as stated: one call of _get_detail issues at most 4 GETs and never
\* raises: every 200 ends it at once with the detail received, a retryable
\* status or a request exception leads to the next attempt or, on the
\* fourth, to an empty detail, any other status ends it at once with an
\* empty detail.
C16_GetDetailBoundedRetries ==
  [][ (last_get' # << >> /\ (attempt' # attempt \/ Len(got') > Len(got))) =>
        LET st == last_get'[1].status
            ended == /\ attempt' = 0
                     /\ Len(got') = Len(got) + 1
                     /\ Last(add') = DetailValues(Last(got'))
            again == /\ attempt' = attempt + 1
                     /\ got' = got /\ add' = add /\ lookups' # << >>
                     /\ Last(lookups') = ids[Len(add) + 1]
        IN  /\ attempt < 4
            /\ pc' = "detail"
            /\ st = 200 => ended /\ Last(got') \in Details \cup {EmptyDict}
            /\ (Retryable(st) \/ st = REQUEST_EXCEPTION) =>
                 IF attempt + 1 < 4 THEN again
                 ELSE ended /\ Last(got') = EmptyDict
            /\ (st # 200 /\ ~Retryable(st) /\ st # REQUEST_EXCEPTION) =>
                 ended /\ Last(got') = EmptyDict
    ]_vars

\* C16 amended: one call of _get_detail issues at most 4 GETs and never
\* raises: a 200 whose body is JSON ends it at once with the detail
\* received; a 200 whose body is not JSON, a retryable status or a request
\* exception leads to the next attempt or, on the fourth, to an empty
\* detail; any other status ends it at once with an empty detail.
C16_GetDetailRetriesUnlessParsed ==
  [][ (last_get' # << >> /\ (attempt' # attempt \/ Len(got') > Len(got))) =>
        LET st == last_get'[1].status
            parsed == last_get'[1].json
            ended == /\ attempt' = 0
                     /\ Len(got') = Len(got) + 1
                     /\ Last(add') = DetailValues(Last(got'))
            again == /\ attempt' = attempt + 1
                     /\ got' = got /\ add' = add /\ lookups' # << >>
                     /\ Last(lookups') = ids[Len(add) + 1]
        IN  /\ attempt < 4
            /\ pc' = "detail"
            /\ (st = 200 /\ parsed) => ended /\ Last(got') \in Details \cup {EmptyDict}
            /\ (Retryable(st) \/ st = REQUEST_EXCEPTION \/ (st = 200 /\ ~parsed)) =>
                 IF attempt + 1 < 4 THEN again
                 ELSE ended /\ Last(got') = EmptyDict
            /\ (st # 200 /\ ~Retryable(st) /\ st # REQUEST_EXCEPTION) =>
                 ended /\ Last(got') = EmptyDict
    ]_vars

\* the fourth GET of a lookup was answered, like the three before it, with
\* a failure; here a 200 whose body is not JSON: the lookup ended with an
\* empty detail
C16_Witness ==
  /\ pc = "detail" /\ attempt = 0 /\ got # << >>
  /\ Last(how) = "exhausted" /\ Last(got) = EmptyDict
  /\ last_get # << >> /\ last_get[1].status = 200 /\ ~last_get[1].json

\* The ids of the first n rows that call for a lookup, in row order.
IdsLookedUp(n) == SelectSeq(SubSeq(ids, 1, n), LAMBDA id : id # "")

\* C14: the run is sequential. While agency i is being fetched every
\* earlier agency has been dealt with and no file of agency i exists yet;
\* the next agency starts only from the loop head, after write_outputs or
\* the except clause; a page is requested only before the first detail
\* lookup; lookups start one at a time, after the previous one has ended,
\* in the order of the accumulated transactions; files change only in
\* write_outputs.
C14_Sequential ==
  /\ [](/\ pc \in {"call", "page", "normalize", "detail", "write", "raised"} =>
             /\ Len(report) = cur - 1
             /\ \A f \in files : f.by < cur
        /\ lookups # << >> =>
             pc \in {"detail", "write", "returned", "raised", WriteRaised}
        /\ lookups = IdsLookedUp(Len(add) + (IF attempt > 0 THEN 1 ELSE 0)))
  /\ [][ /\ (posts' # posts /\ posts' # << >>) =>
              /\ pc = "page" /\ lookups = << >> /\ add = << >>
              /\ posts' = Append(posts, Len(posts) + 1)
         /\ (lookups' # lookups /\ lookups' # << >>) =>
              /\ pc = "detail" /\ attempt = 0
              /\ lookups' = Append(lookups, ids[Len(add) + 1])
         /\ files' # files =>
              /\ pc = "write" /\ pc' \in {"loop", WriteRaised}
              /\ \A f \in files' \ files : f.by = cur
         /\ cur' # cur =>
              /\ pc = "loop" /\ cur' = cur + 1
              /\ posts = << >> /\ lookups = << >>
              /\ Len(report) = cur
    ]_vars

\* the second agency is in its second detail lookup after the first agency
\* was fetched, enriched and written
C14_Witness ==
  /\ cur = 2 /\ pc = "detail"
  /\ Len(lookups) = 2 /\ lookups[1] # lookups[2] /\ attempt > 0
  /\ Len(posts) = 2
  /\ report[1].ok /\ ~report[1].empty
  /\ \E f \in files : f.by = 1 /\ f.kind = "agg"

\* A field of a transaction holds a usable value: present, not null, not
\* empty (a field the server left out is absent, or NaN once tabulated).
Usable(txn, f) == f \in DOMAIN txn /\ txn[f] \notin {None, NaN, ""}

\* The lookup key by priority: generated internal id, internal id, award id.
KeyByPriority(txn) ==
  IF Usable(txn, "generated_internal_id") THEN txn["generated_internal_id"]
  ELSE IF Usable(txn, "internal_id") THEN txn["internal_id"]
  ELSE IF Usable(txn, "Award ID") THEN txn["Award ID"]
  ELSE ""

\* C15: the lookup key of each transaction is its first usable id by
\* priority; a transaction with no usable id gets no detail request and an
\* empty detail.
C15_LookupKeyPriority ==
  (pc \in {"detail", "returned", "write"} /\ ~no_detail /\ rows # << >>) =>
    /\ Len(ids) = Len(rows)
    /\ \A k \in 1..Len(rows) : ids[k] = KeyByPriority(rows[k])
    /\ \A k \in 1..Len(how) :
         KeyByPriority(rows[k]) = "" => how[k] = "skipped" /\ got[k] = EmptyDict

\* C17: with a page cap N at most N search requests are issued (the first
\* page is requested before the cap is looked at, so one when N < 1),
\* whatever the server answers.
C17_PageCapBoundsRequests ==
  \A n \in max_pages : Len(posts) <= (IF n < 1 THEN 1 ELSE n)

\* A page request of the call in progress failed: the request raised, or
\* its response was not a success (not 2xx).
PageFailed ==
  \/ pc = Raised /\ posts # << >>
  \/ \E k \in 1..Len(pages) : ~pages[k].success

\* C18: output is all or nothing per agency. Once a page request of an
\* agency has failed, the rows of its earlier pages are discarded (no table
\* is made of them) and no file is created or modified for it; files change
\* only in write_outputs, that is after the page loop and every detail
\* lookup of the agency have ended.
C18_AllOrNothing ==
  [][ /\ PageFailed =>
           /\ files' = files
           /\ result' = NoFrame /\ written' = << >>
      /\ files' # files =>
           /\ pc = "write"
           /\ Len(result.rows) = Len(rows)
           /\ (~no_detail /\ rows # << >>) =>
                (Len(got) = Len(rows) /\ attempt = 0)
    ]_vars

====
